---- MODULE Spec2Model ----
(***************************************************************************)
(* Model of smartship/carriers/posti.py: the Posti shipment builder        *)
(* (create_shipment) and the location query (get_locations).               *)
(*                                                                         *)
(* Python values are records tagged with their kind, so that None, an      *)
(* empty value and a non-empty value stay distinct and truthiness is the   *)
(* language's.  A dict that is only checked for its keys is its key set.   *)
(***************************************************************************)
EXTENDS Integers, Sequences, FiniteSets, TLC

VARIABLES module, pc, op, args, locals, constructed, net, outcome, variantUsed

vars == <<module, pc, op, args, locals, constructed, net, outcome, variantUsed>>

-----------------------------------------------------------------------------
(* Python values *)

None == [kind |-> "none"]

PyStr(s) == [kind |-> "str", s |-> s]

PyInt(n) == [kind |-> "int", n |-> n]

PyBool(b) == [kind |-> "bool", b |-> b]

PyFloat(r) == [kind |-> "float", r |-> r]

PyDict(keys) == [kind |-> "dict", keys |-> keys]

PyList(items) == [kind |-> "list", items |-> items]

PyObj(cls, data) == [kind |-> "obj", cls |-> cls, data |-> data]

\* Python truth value testing, as used by `if agent:`, `if addons:`,
\* `"true" if strict_zip_code else None`.
truthy(v) ==
    CASE v.kind = "none"  -> FALSE
      [] v.kind = "str"   -> v.s # ""
      [] v.kind = "int"   -> v.n # 0
      [] v.kind = "bool"  -> v.b
      [] v.kind = "float" -> v.r # "0.0"
      [] v.kind = "dict"  -> v.keys # {}
      [] v.kind = "list"  -> v.items # <<>>
      [] OTHER            -> TRUE

-----------------------------------------------------------------------------
(* Module-level constants *)

CARRIER_CODE == "POSTI"

\* The keys of the SERVICES dict.
SERVICES ==
    {"PO2017", "PO2017D", "ITKY14I", "IT14I", "PO2102", "PO2144", "PO2104",
     "PO5041", "PO2108", "PO2711", "PO2718", "PO2461", "PO2103", "ITPR",
     "PO2106"}

NATIONAL_SERVICE_KEYS ==
    {"ITPR", "PO2102", "PO2103", "PO2104", "PO2108", "PO2144", "PO2461",
     "PO5041"}

NATIONAL_SERVICES == {key \in SERVICES : key \in NATIONAL_SERVICE_KEYS}

LOCATION_SERVICE_API_ENDPOINT == "https://locationservice.posti.com/location"

-----------------------------------------------------------------------------
(* Schemas and the classes that own them.                                  *)
(* A schema object lives on the heap; a class attribute `schema` is a      *)
(* reference to it, so that sharing and copying are distinguishable.       *)

\* A schema: an object schema accepts a dict holding every key of at least
\* one of its oneOf field sets; an array schema accepts a list whose every
\* item holds the keys of items.required.
ObjectSchema(fieldSets) ==
    [type |-> "object", oneOf |-> fieldSets, items |-> [required |-> {}]]

ArraySchema(required) ==
    [type |-> "array", oneOf |-> <<>>, items |-> [required |-> required]]

\* smartship.objects: the base classes and their schemas.
ObjectsModule ==
    [schema |-> [cls \in {"Receiver", "Sender", "Parcels", "Agent",
                          "PDFConfig", "Service", "SenderPartners"}
                    |-> cls],
     heap |-> [ref \in {"Receiver", "Sender", "Parcels", "Agent",
                        "PDFConfig", "Service", "SenderPartners"} |->
                 CASE ref = "Receiver" ->
                        ObjectSchema(<<{"name", "city", "country"}, {"quickId"}>>)
                   [] ref = "Sender" ->
                        ObjectSchema(<<{"name", "city", "country"}, {"quickId"}>>)
                   [] ref = "Parcels" -> ArraySchema({"copies"})
                   [] ref = "Agent" -> ObjectSchema(<<{"quickId"}>>)
                   [] ref = "PDFConfig" -> ObjectSchema(<<{"target1Media"}>>)
                   [] ref = "Service" -> ObjectSchema(<<{"id"}>>)
                   [] OTHER -> ArraySchema({"id", "custNo"})],
     services |-> SERVICES,
     national |-> NATIONAL_SERVICES]

\* No copy: the same schema object under a second name.
deepcopy_alias(heap, ref, fresh) == [heap |-> heap, ref |-> ref]

\* copy.deepcopy of the schema object at `ref`: a fresh object with the
\* same contents, sharing nothing with the original.

deepcopy(heap, ref, fresh) ==
    [heap |-> (fresh :> heap[ref]) @@ heap, ref |-> fresh]

\* class MobileReceiver(Receiver): schema = deepcopy(Receiver.schema);
\* schema["oneOf"][0] = {"required": ["name", "city", "country", "mobile"]}
MobileReceiver(m) ==
    LET c == deepcopy(m.heap, m.schema["Receiver"], "MobileReceiver")
    IN  [m EXCEPT
           !.heap = [c.heap EXCEPT ![c.ref].oneOf[1] =
                                      {"name", "city", "country", "mobile"}],
           !.schema = ("MobileReceiver" :> c.ref) @@ m.schema]

\* class WeightedParcels(Parcels): schema = deepcopy(Parcels.schema);
\* schema["items"]["required"].append("weight")
WeightedParcels(m) ==
    LET c == deepcopy(m.heap, m.schema["Parcels"], "WeightedParcels")
    IN  [m EXCEPT
           !.heap = [c.heap EXCEPT ![c.ref].items.required = @ \cup {"weight"}],
           !.schema = ("WeightedParcels" :> c.ref) @@ m.schema]

\* The module state once posti.py has been imported.
LoadedModule == WeightedParcels(MobileReceiver(ObjectsModule))

\* jsonschema validation of `v` against `schema`.
Validates(schema, v) ==
    IF schema.type = "object"
    THEN /\ v.kind = "dict"
         /\ \E i \in DOMAIN schema.oneOf : schema.oneOf[i] \subseteq v.keys
    ELSE /\ v.kind = "list"
         /\ \A i \in DOMAIN v.items :
               /\ v.items[i].kind = "dict"
               /\ schema.items.required \subseteq v.items[i].keys

\* cls(data): constructing a schema object validates the data against the
\* schema the class currently refers to.
SchemaOf(m, cls) == m.heap[m.schema[cls]]

-----------------------------------------------------------------------------
(* create_shipment and its helpers *)

\* No membership check at all.
_validate_create_shipment_none(m, service_id) == TRUE

\* TRUE when the check passes, FALSE when it raises ValueError.
_validate_create_shipment(m, service_id) == service_id \in m.services

\* The base class whatever the service.
_infer_receiver_class_base(service_id, agent) == "Receiver"

_infer_receiver_class(service_id, agent) ==
    IF service_id = "PO2104" THEN "MobileReceiver"
    ELSE IF service_id = "PO2103" /\ truthy(agent) THEN "MobileReceiver"
    ELSE "Receiver"

\* The base class whatever the service.
_infer_parcels_class_base(service_id) == "Parcels"

_infer_parcels_class(service_id) ==
    IF service_id = "PO5041" THEN "WeightedParcels" ELSE "Parcels"

\* The fields of the Service object: "id" always, "addons" when truthy.
_build_service(addons, service_id) ==
    IF truthy(addons)
    THEN ("addons" :> addons) @@ ("id" :> PyStr(service_id))
    ELSE ("id" :> PyStr(service_id))

-----------------------------------------------------------------------------
(* Calls in progress.  Each thread runs one call at a time; a call's       *)
(* arguments, locals, constructed objects, outbound requests and outcome   *)
(* are its own.                                                            *)

NoOutcome == [kind |-> "none"]

Returned(value) == [kind |-> "return", value |-> value]

Raised(exc) == [kind |-> "raise", exc |-> exc]

NoResponse == [status |-> 0, body |-> "none"]

NoLocals ==
    [receiver_class |-> "", parcels_class |-> "", kwargs |-> <<>>,
     params |-> <<>>, response |-> NoResponse, parsed |-> FALSE]

Goto(t, next) ==
    /\ pc' = [pc EXCEPT ![t] = next]
    /\ UNCHANGED outcome

Finish(t, result) ==
    /\ pc' = [pc EXCEPT ![t] = "done"]
    /\ outcome' = [outcome EXCEPT ![t] = result]

\* The two classes kept in names every call shares.
BindClassesShared(l, t, receiver_class, parcels_class) ==
    [u \in DOMAIN l |-> [l[u] EXCEPT !.receiver_class = receiver_class,
                                     !.parcels_class = parcels_class]]

\* Binding the two inferred classes to the call's own local names.
BindClasses(l, t, receiver_class, parcels_class) ==
    [l EXCEPT ![t].receiver_class = receiver_class,
              ![t].parcels_class = parcels_class]

\* kwargs[field] = cls(data): the constructor validates, and a failed
\* validation propagates out of create_shipment.
Construct(t, cls, data, field, next) ==
    /\ constructed' = [constructed EXCEPT ![t] = Append(@, cls)]
    /\ variantUsed' = (variantUsed \/ cls \in {"MobileReceiver", "WeightedParcels"})
    /\ IF Validates(SchemaOf(module, cls), data)
       THEN /\ locals' = [locals EXCEPT ![t].kwargs =
                              (field :> PyObj(cls, data)) @@ @]
            /\ Goto(t, next)
       ELSE /\ Finish(t, Raised("ValidationError"))
            /\ UNCHANGED locals
    /\ UNCHANGED <<module, op, args, net>>

\* A call of create_shipment(custno, service_id, receiver, sender, parcels,
\* agent, order_no, sender_reference, pdf_config, addons).
CallCreateShipment(t, Calls) ==
    /\ pc[t] = "idle"
    /\ \E a \in Calls :
          /\ args' = [args EXCEPT ![t] = a]
          /\ op' = [op EXCEPT ![t] = "create_shipment"]
    /\ pc' = [pc EXCEPT ![t] = "cs_validate"]
    /\ UNCHANGED <<module, locals, constructed, net, outcome, variantUsed>>

\* _validate_create_shipment(service_id)
CsValidate(t) ==
    /\ pc[t] = "cs_validate"
    /\ IF _validate_create_shipment(module, args[t].service_id.s)
       THEN Goto(t, "cs_infer")
       ELSE Finish(t, Raised("ValueError"))
    /\ UNCHANGED <<module, op, args, locals, constructed, net, variantUsed>>

\* receiver_class = _infer_receiver_class(service_id, agent)
\* parcels_class = _infer_parcels_class(service_id)
CsInfer(t) ==
    /\ pc[t] = "cs_infer"
    /\ locals' = BindClasses(locals, t,
                     _infer_receiver_class(args[t].service_id.s, args[t].agent),
                     _infer_parcels_class(args[t].service_id.s))
    /\ Goto(t, "cs_sender")
    /\ UNCHANGED <<module, op, args, constructed, net, variantUsed>>

\* "sender": Sender(sender)
CsSender(t) ==
    /\ pc[t] = "cs_sender"
    /\ Construct(t, "Sender", args[t].sender, "sender", "cs_partners")

\* "senderPartners": SenderPartners([{"id": CARRIER_CODE, "custNo": custno}])
CsSenderPartners(t) ==
    /\ pc[t] = "cs_partners"
    /\ Construct(t, "SenderPartners",
                 PyList(<<[kind |-> "dict", keys |-> {"id", "custNo"},
                           id |-> CARRIER_CODE, custNo |-> args[t].custno]>>),
                 "senderPartners", "cs_receiver")

\* "receiver": receiver_class(receiver)
CsReceiver(t) ==
    /\ pc[t] = "cs_receiver"
    /\ Construct(t, locals[t].receiver_class, args[t].receiver, "receiver",
                 "cs_parcels")

\* "parcels": parcels_class(parcels)
CsParcels(t) ==
    /\ pc[t] = "cs_parcels"
    /\ Construct(t, locals[t].parcels_class, args[t].parcels, "parcels",
                 "cs_service")

\* "service": _build_service(addons, service_id)
CsService(t) ==
    /\ pc[t] = "cs_service"
    /\ constructed' = [constructed EXCEPT ![t] = Append(@, "Service")]
    /\ IF Validates(SchemaOf(module, "Service"), PyDict({"id"}))
       THEN /\ locals' = [locals EXCEPT ![t].kwargs =
                  ("service" :> PyObj("Service",
                       _build_service(args[t].addons, args[t].service_id.s)))
                  @@ @]
            /\ Goto(t, "cs_agent")
       ELSE /\ Finish(t, Raised("ValidationError"))
            /\ UNCHANGED locals
    /\ UNCHANGED <<module, op, args, net, variantUsed>>

\* if agent: kwargs["agent"] = Agent(agent)
CsAgent(t) ==
    /\ pc[t] = "cs_agent"
    /\ IF truthy(args[t].agent)
       THEN Construct(t, "Agent", args[t].agent, "agent", "cs_refs")
       ELSE /\ Goto(t, "cs_refs")
            /\ UNCHANGED <<module, op, args, locals, constructed, net,
                           variantUsed>>

\* Both references stored unconditionally.
WithReferencesAlways(kwargs, order_no, sender_reference) ==
    ("orderNo" :> order_no) @@ ("senderReference" :> sender_reference) @@ kwargs

\* The kwargs after `if order_no:` and `if sender_reference:`.
WithReferences(kwargs, order_no, sender_reference) ==
    (IF truthy(order_no) THEN ("orderNo" :> order_no) ELSE <<>>)
    @@ (IF truthy(sender_reference)
        THEN ("senderReference" :> sender_reference) ELSE <<>>)
    @@ kwargs

\* if order_no: kwargs["orderNo"] = order_no
\* if sender_reference: kwargs["senderReference"] = sender_reference
CsReferences(t) ==
    /\ pc[t] = "cs_refs"
    /\ locals' = [locals EXCEPT ![t].kwargs =
                     WithReferences(@, args[t].order_no, args[t].sender_reference)]
    /\ Goto(t, "cs_pdf")
    /\ UNCHANGED <<module, op, args, constructed, net, variantUsed>>

\* if pdf_config: kwargs["pdfConfig"] = PDFConfig(pdf_config)
CsPdfConfig(t) ==
    /\ pc[t] = "cs_pdf"
    /\ IF truthy(args[t].pdf_config)
       THEN Construct(t, "PDFConfig", args[t].pdf_config, "pdfConfig",
                      "cs_return")
       ELSE /\ Goto(t, "cs_return")
            /\ UNCHANGED <<module, op, args, locals, constructed, net,
                           variantUsed>>

\* smartship.shipments.Shipment(**kwargs): the request holds the keyword
\* arguments it was given.
Shipment(kwargs) == PyObj("Shipment", kwargs)

\* return Shipment(**kwargs)
CsReturn(t) ==
    /\ pc[t] = "cs_return"
    /\ Finish(t, Returned(Shipment(locals[t].kwargs)))
    /\ UNCHANGED <<module, op, args, locals, constructed, net, variantUsed>>

-----------------------------------------------------------------------------
(* get_locations *)

\* A dict restricted to some of its keys.
Restrict(f, keys) == [k \in keys |-> f[k]]

\* The flag encoded both ways: "true" and "false".
strictZipCodeParamEcho(strict_zip_code) ==
    IF strict_zip_code.kind = "none" THEN None
    ELSE IF truthy(strict_zip_code) THEN PyStr("true") ELSE PyStr("false")

\* "true" if strict_zip_code else None
strictZipCodeParam(strict_zip_code) ==
    IF truthy(strict_zip_code) THEN PyStr("true") ELSE None

\* params = {"countryCode": country_code, ..., "partnerType": partner_type}
InitialParams(a) ==
    [countryCode     |-> a.country_code,
     top             |-> a.top,
     types           |-> a.types,
     lat             |-> a.lattitude,
     lng             |-> a.longitude,
     distance        |-> a.distance,
     zipCode         |-> a.zipcode,
     locationZipCode |-> a.location_zipcode,
     strictZipCode   |-> strictZipCodeParam(a.strict_zip_code),
     city            |-> a.city,
     municipality    |-> a.municipality,
     pupCode         |-> a.pup_code,
     partnerType     |-> a.partner_type]

\* Latitude and longitude taken from each other's index.
BoundingBoxParamsSwapped(bounding_box) ==
    [topLeftLat     |-> bounding_box.items[2],
     topLeftLng     |-> bounding_box.items[1],
     bottomRightLat |-> bounding_box.items[4],
     bottomRightLng |-> bounding_box.items[3]]

\* params["topLeftLat"] = bounding_box[0] ... params["bottomRightLng"] =
\* bounding_box[3]; Python index i is index i + 1 here.
BoundingBoxParams(bounding_box) ==
    [topLeftLat     |-> bounding_box.items[1],
     topLeftLng     |-> bounding_box.items[2],
     bottomRightLat |-> bounding_box.items[3],
     bottomRightLng |-> bounding_box.items[4]]

\* Every falsy value dropped, as `if not value` would.
DropNoneFalsy(params) ==
    Restrict(params, {k \in DOMAIN params : truthy(params[k])})

\* for key, value in list(params.items()): if value is None: params.pop(key)
DropNone(params) ==
    Restrict(params, {k \in DOMAIN params : params[k] # None})

\* The status never looked at.
raise_for_status_never(status) == FALSE

\* response.raise_for_status(): requests raises HTTPError for a client
\* error (4xx) or a server error (5xx) status, and for no other status.
\* TRUE when it raises.

raise_for_status(status) == status \in 400..599

CallGetLocations(t, Calls) ==
    /\ pc[t] = "idle"
    /\ \E a \in Calls :
          /\ args' = [args EXCEPT ![t] = a]
          /\ op' = [op EXCEPT ![t] = "get_locations"]
    /\ pc' = [pc EXCEPT ![t] = "gl_params"]
    /\ UNCHANGED <<module, locals, constructed, net, outcome, variantUsed>>

\* params = {...}
GlParams(t) ==
    /\ pc[t] = "gl_params"
    /\ locals' = [locals EXCEPT ![t].params = InitialParams(args[t])]
    /\ Goto(t, "gl_bbox")
    /\ UNCHANGED <<module, op, args, constructed, net, variantUsed>>

\* if bounding_box is not None: params["topLeftLat"] = bounding_box[0] ...
\* A list shorter than four elements raises IndexError at the missing index.
GlBoundingBox(t) ==
    /\ pc[t] = "gl_bbox"
    /\ IF args[t].bounding_box = None
       THEN /\ Goto(t, "gl_filter")
            /\ UNCHANGED locals
       ELSE IF Len(args[t].bounding_box.items) < 4
       THEN /\ Finish(t, Raised("IndexError"))
            /\ UNCHANGED locals
       ELSE /\ locals' = [locals EXCEPT ![t].params =
                              BoundingBoxParams(args[t].bounding_box) @@ @]
            /\ Goto(t, "gl_filter")
    /\ UNCHANGED <<module, op, args, constructed, net, variantUsed>>

\* for key, value in list(params.items()): ...
GlFilter(t) ==
    /\ pc[t] = "gl_filter"
    /\ locals' = [locals EXCEPT ![t].params = DropNone(@)]
    /\ Goto(t, "gl_get")
    /\ UNCHANGED <<module, op, args, constructed, net, variantUsed>>

\* What the remote service may answer.
Responses ==
    {[status |-> 200, body |-> "locations"],
     [status |-> 200, body |-> "no_locations_key"],
     [status |-> 200, body |-> "not_json"],
     [status |-> 304, body |-> "locations"],
     [status |-> 404, body |-> "locations"],
     [status |-> 500, body |-> "not_json"]}

\* response = requests.get(LOCATION_SERVICE_API_ENDPOINT, params=params):
\* the request goes out; either a response comes back or the transport
\* raises (no connection, timeout).
GlGet(t) ==
    /\ pc[t] = "gl_get"
    /\ net' = [net EXCEPT ![t] =
                  Append(@, [method |-> "GET",
                             url |-> LOCATION_SERVICE_API_ENDPOINT,
                             params |-> locals[t].params])]
    /\ \/ \E r \in Responses :
             /\ locals' = [locals EXCEPT ![t].response = r]
             /\ Goto(t, "gl_status")
       \/ /\ Finish(t, Raised("ConnectionError"))
          /\ UNCHANGED locals
    /\ UNCHANGED <<module, op, args, constructed, variantUsed>>

\* response.raise_for_status()
GlRaiseForStatus(t) ==
    /\ pc[t] = "gl_status"
    /\ IF raise_for_status(locals[t].response.status)
       THEN Finish(t, Raised("HTTPError"))
       ELSE Goto(t, "gl_json")
    /\ UNCHANGED <<module, op, args, locals, constructed, net, variantUsed>>

\* The list the remote service returned under "locations".
LocationsOf(response) == PyList(<<PyStr("location-1"), PyStr("location-2")>>)

\* return Locations(response.json()["locations"])
GlJson(t) ==
    /\ pc[t] = "gl_json"
    /\ locals' = [locals EXCEPT ![t].parsed = TRUE]
    /\ Finish(t, CASE locals[t].response.body = "not_json" -> Raised("ValueError")
                   [] locals[t].response.body = "no_locations_key" -> Raised("KeyError")
                   [] OTHER -> Returned(PyObj("Locations",
                                              LocationsOf(locals[t].response))))
    /\ UNCHANGED <<module, op, args, constructed, net, variantUsed>>

\* The caller has the outcome; the thread is free for its next call.
Return(t) ==
    /\ pc[t] = "done"
    /\ pc' = [pc EXCEPT ![t] = "idle"]
    /\ op' = [op EXCEPT ![t] = "none"]
    /\ args' = [args EXCEPT ![t] = <<>>]
    /\ locals' = [locals EXCEPT ![t] = NoLocals]
    /\ constructed' = [constructed EXCEPT ![t] = <<>>]
    /\ net' = [net EXCEPT ![t] = <<>>]
    /\ outcome' = [outcome EXCEPT ![t] = NoOutcome]
    /\ UNCHANGED <<module, variantUsed>>

-----------------------------------------------------------------------------
(* The calls a caller may make *)

\* The most arguments of get_locations, other than strict_zip_code and
\* bounding_box, that one call supplies.
MaxSetArgs == 2

\* The threads that call concurrently.
NumThreads == 2

ServiceIds == {"PO2104", "PO2103", "PO5041", "PO2102", "PO9999", "po2103"}

CreateShipmentCalls ==
    [custno : {PyStr("12345")},
     service_id : {PyStr(s) : s \in ServiceIds},
     receiver : {PyDict({}), PyDict({"quickId"}),
                 PyDict({"name", "city", "country"}),
                 PyDict({"name", "city", "country", "mobile"})},
     sender : {PyDict({}), PyDict({"quickId"})},
     parcels : {PyList(<<>>),
                PyList(<<PyDict({"copies"})>>),
                PyList(<<PyDict({"copies", "weight"})>>),
                PyList(<<PyDict({"copies", "weight"}), PyDict({"copies"})>>)},
     agent : {None, PyDict({}), PyDict({"quickId"})},
     order_no : {None, PyStr(""), PyStr("ORDER-1")},
     sender_reference : {None, PyStr("REF-1")},
     pdf_config : {None, PyDict({}), PyDict({"target1Media"})},
     addons : {None, PyList(<<>>), PyList(<<PyDict({"id"})>>)}]

\* The arguments of get_locations that go into the query as they are.
PlainArgs ==
    {"country_code", "top", "types", "lattitude", "longitude", "distance",
     "zipcode", "location_zipcode", "city", "municipality", "pup_code",
     "partner_type"}

\* A falsy and a truthy value of each such argument.
FalsyValue(arg) ==
    CASE arg = "top" -> PyInt(0)
      [] arg = "types" -> PyList(<<>>)
      [] OTHER -> PyStr("")

TruthyValue(arg) ==
    CASE arg = "top" -> PyInt(5)
      [] arg = "types" -> PyList(<<PyStr("LOCKER")>>)
      [] arg = "country_code" -> PyStr("FI")
      [] OTHER -> PyStr("60.17")

BoundingBoxes ==
    {None,
     PyList(<<PyFloat("1.0"), PyFloat("2.0"), PyFloat("3.0"), PyFloat("4.0")>>),
     PyList(<<PyFloat("0.0"), PyFloat("25.5"), PyFloat("0.0"), PyFloat("61.0")>>),
     PyList(<<PyFloat("1.0"), PyFloat("2.0"), PyFloat("3.0")>>)}

GetLocationsCall(given, strict_zip_code, bounding_box) ==
    [a \in PlainArgs |->
        IF a \in DOMAIN given
        THEN (IF given[a] THEN TruthyValue(a) ELSE FalsyValue(a))
        ELSE None]
    @@ [strict_zip_code |-> strict_zip_code, bounding_box |-> bounding_box]

GetLocationsCalls ==
    UNION {{GetLocationsCall(given, s, b) :
               given \in [S -> BOOLEAN],
               s \in {None, PyBool(FALSE), PyBool(TRUE)},
               b \in BoundingBoxes} :
           S \in {S \in SUBSET PlainArgs : Cardinality(S) <= MaxSetArgs}}

\* The calls of the concurrent runs: a few of each kind.
ConcurrentCreateShipmentCalls ==
    {[custno |-> PyStr("12345"), service_id |-> PyStr(c[1]), receiver |-> c[2],
      sender |-> PyDict({"quickId"}), parcels |-> PyList(<<PyDict({"copies"})>>),
      agent |-> c[3], order_no |-> None, sender_reference |-> None,
      pdf_config |-> None, addons |-> None] :
        c \in {<<"PO2103", PyDict({"name", "city", "country", "mobile"}),
                 PyDict({"quickId"})>>,
               <<"PO5041", PyDict({"name", "city", "country"}), None>>}}

ConcurrentGetLocationsCalls ==
    {GetLocationsCall([top |-> TRUE], PyBool(TRUE), None)}

-----------------------------------------------------------------------------
(* Specifications *)

InitThreads(T) ==
    /\ module = LoadedModule
    /\ pc = [t \in T |-> "idle"]
    /\ op = [t \in T |-> "none"]
    /\ args = [t \in T |-> <<>>]
    /\ locals = [t \in T |-> NoLocals]
    /\ constructed = [t \in T |-> <<>>]
    /\ net = [t \in T |-> <<>>]
    /\ outcome = [t \in T |-> NoOutcome]
    /\ variantUsed = FALSE

\* One caller, any call.
Init == InitThreads({1})

Next ==
    \/ \E t \in DOMAIN pc : CallCreateShipment(t, CreateShipmentCalls)
    \/ \E t \in DOMAIN pc : CallGetLocations(t, GetLocationsCalls)
    \/ \E t \in DOMAIN pc : CsValidate(t)
    \/ \E t \in DOMAIN pc : CsInfer(t)
    \/ \E t \in DOMAIN pc : CsSender(t)
    \/ \E t \in DOMAIN pc : CsSenderPartners(t)
    \/ \E t \in DOMAIN pc : CsReceiver(t)
    \/ \E t \in DOMAIN pc : CsParcels(t)
    \/ \E t \in DOMAIN pc : CsService(t)
    \/ \E t \in DOMAIN pc : CsAgent(t)
    \/ \E t \in DOMAIN pc : CsReferences(t)
    \/ \E t \in DOMAIN pc : CsPdfConfig(t)
    \/ \E t \in DOMAIN pc : CsReturn(t)
    \/ \E t \in DOMAIN pc : GlParams(t)
    \/ \E t \in DOMAIN pc : GlBoundingBox(t)
    \/ \E t \in DOMAIN pc : GlFilter(t)
    \/ \E t \in DOMAIN pc : GlGet(t)
    \/ \E t \in DOMAIN pc : GlRaiseForStatus(t)
    \/ \E t \in DOMAIN pc : GlJson(t)
    \/ \E t \in DOMAIN pc : Return(t)

Spec == Init /\ [][Next]_vars

\* Several callers at once, their steps interleaved.
InitConcurrent == InitThreads(1..NumThreads)

NextConcurrent ==
    \/ \E t \in DOMAIN pc : CallCreateShipment(t, ConcurrentCreateShipmentCalls)
    \/ \E t \in DOMAIN pc : CallGetLocations(t, ConcurrentGetLocationsCalls)
    \/ \E t \in DOMAIN pc : CsValidate(t)
    \/ \E t \in DOMAIN pc : CsInfer(t)
    \/ \E t \in DOMAIN pc : CsSender(t)
    \/ \E t \in DOMAIN pc : CsSenderPartners(t)
    \/ \E t \in DOMAIN pc : CsReceiver(t)
    \/ \E t \in DOMAIN pc : CsParcels(t)
    \/ \E t \in DOMAIN pc : CsService(t)
    \/ \E t \in DOMAIN pc : CsAgent(t)
    \/ \E t \in DOMAIN pc : CsReferences(t)
    \/ \E t \in DOMAIN pc : CsPdfConfig(t)
    \/ \E t \in DOMAIN pc : CsReturn(t)
    \/ \E t \in DOMAIN pc : GlParams(t)
    \/ \E t \in DOMAIN pc : GlBoundingBox(t)
    \/ \E t \in DOMAIN pc : GlFilter(t)
    \/ \E t \in DOMAIN pc : GlGet(t)
    \/ \E t \in DOMAIN pc : GlRaiseForStatus(t)
    \/ \E t \in DOMAIN pc : GlJson(t)
    \/ \E t \in DOMAIN pc : Return(t)

SpecConcurrent == InitConcurrent /\ [][NextConcurrent]_vars

-----------------------------------------------------------------------------
(* The two operations run alone, start to end, as functions of their       *)
(* arguments (and, for get_locations, of what the remote service answers). *)

\* The objects create_shipment constructs, in the order it constructs them.
Constructions(a) ==
    <<[cls |-> "Sender", data |-> a.sender, field |-> "sender"],
      [cls |-> "SenderPartners",
       data |-> PyList(<<[kind |-> "dict", keys |-> {"id", "custNo"},
                          id |-> CARRIER_CODE, custNo |-> a.custno]>>),
       field |-> "senderPartners"],
      [cls |-> _infer_receiver_class(a.service_id.s, a.agent),
       data |-> a.receiver, field |-> "receiver"],
      [cls |-> _infer_parcels_class(a.service_id.s),
       data |-> a.parcels, field |-> "parcels"]>>
    \o (IF truthy(a.agent)
        THEN <<[cls |-> "Agent", data |-> a.agent, field |-> "agent"]>>
        ELSE <<>>)
    \o (IF truthy(a.pdf_config)
        THEN <<[cls |-> "PDFConfig", data |-> a.pdf_config,
                field |-> "pdfConfig"]>>
        ELSE <<>>)

create_shipment(m, a) ==
    IF ~_validate_create_shipment(m, a.service_id.s)
    THEN Raised("ValueError")
    ELSE LET cs == Constructions(a)
             constructedFields ==
                 [f \in {cs[i].field : i \in DOMAIN cs} |->
                     LET c == CHOOSE c \in {cs[i] : i \in DOMAIN cs} : c.field = f
                     IN  PyObj(c.cls, c.data)]
             service == ("service" :> PyObj("Service",
                             _build_service(a.addons, a.service_id.s)))
         IN  IF \E i \in DOMAIN cs : ~Validates(SchemaOf(m, cs[i].cls), cs[i].data)
             THEN Raised("ValidationError")
             ELSE Returned(Shipment(
                      WithReferences(service @@ constructedFields,
                                     a.order_no, a.sender_reference)))

\* The query get_locations sends, when it gets as far as sending one.
QueryOf(a) ==
    DropNone((IF a.bounding_box = None
              THEN <<>>
              ELSE BoundingBoxParams(a.bounding_box)) @@ InitialParams(a))

get_locations(a, response) ==
    IF a.bounding_box # None /\ Len(a.bounding_box.items) < 4
    THEN [sent |-> <<>>, outcome |-> Raised("IndexError")]
    ELSE [sent |-> <<[method |-> "GET", url |-> LOCATION_SERVICE_API_ENDPOINT,
                      params |-> QueryOf(a)]>>,
          outcome |->
             IF response = NoResponse THEN Raised("ConnectionError")
             ELSE IF raise_for_status(response.status) THEN Raised("HTTPError")
             ELSE IF response.body = "not_json" THEN Raised("ValueError")
             ELSE IF response.body = "no_locations_key" THEN Raised("KeyError")
             ELSE Returned(PyObj("Locations", LocationsOf(response)))]

-----------------------------------------------------------------------------
(* Properties *)

CsCalls == {t \in DOMAIN pc : op[t] = "create_shipment"}

GlCalls == {t \in DOMAIN pc : op[t] = "get_locations"}

\* A create_shipment call that has its classes inferred.
Inferred(t) ==
    /\ op[t] = "create_shipment"
    /\ locals[t].receiver_class # ""

\* A get_locations call whose request has gone out.
Sent(t) ==
    /\ op[t] = "get_locations"
    /\ net[t] # <<>>

ValidSender == PyDict({"quickId"})

PlainReceiver == PyDict({"name", "city", "country"})

\* C1: a service_id that is no key of SERVICES makes create_shipment raise
\* ValueError, whatever the other arguments, before any object is
\* constructed or validated: nothing is built, no validation error occurs.
C1_UnknownServiceRaisesFirst ==
    \A t \in CsCalls :
       args[t].service_id.s \notin SERVICES =>
          /\ pc[t] \in {"cs_validate", "done"}
          /\ constructed[t] = <<>>
          /\ DOMAIN locals[t].kwargs = {}
          /\ pc[t] = "done" => outcome[t] = Raised("ValueError")

\* An unknown service with a sender that would fail validation: ValueError.
C1_Witness ==
    \E t \in CsCalls :
       /\ pc[t] = "done"
       /\ args[t].service_id.s = "PO9999"
       /\ args[t].sender = PyDict({})
       /\ args[t].receiver = PyDict({})
       /\ outcome[t] = Raised("ValueError")

\* C2 as stated: for a registered service the receiver is wrapped in
\* MobileReceiver exactly when service_id is "PO2104", or service_id is
\* "PO2103" and an agent argument was supplied (is not None); in every
\* other case it is wrapped in Receiver.
C2_MobileWhenAgentSupplied ==
    \A t \in CsCalls :
       Inferred(t) =>
          /\ locals[t].receiver_class
                = IF \/ args[t].service_id.s = "PO2104"
                     \/ /\ args[t].service_id.s = "PO2103"
                        /\ args[t].agent # None
                  THEN "MobileReceiver" ELSE "Receiver"
          /\ "receiver" \in DOMAIN locals[t].kwargs =>
                locals[t].kwargs["receiver"].cls = locals[t].receiver_class

\* C2 amended: ... or service_id is "PO2103" and the agent argument is
\* truthy (supplied and non-empty); "PO2103" with agent None or with an
\* empty agent uses Receiver.
C2_MobileWhenAgentTruthy ==
    \A t \in CsCalls :
       Inferred(t) =>
          /\ locals[t].receiver_class
                = IF \/ args[t].service_id.s = "PO2104"
                     \/ /\ args[t].service_id.s = "PO2103"
                        /\ truthy(args[t].agent)
                  THEN "MobileReceiver" ELSE "Receiver"
          /\ "receiver" \in DOMAIN locals[t].kwargs =>
                locals[t].kwargs["receiver"].cls = locals[t].receiver_class

\* "PO2103" with an agent: the returned request holds a MobileReceiver.
C2_Witness ==
    \E t \in CsCalls :
       /\ pc[t] = "done"
       /\ args[t].service_id.s = "PO2103"
       /\ args[t].agent = PyDict({"quickId"})
       /\ outcome[t].kind = "return"
       /\ outcome[t].value.data["receiver"].cls = "MobileReceiver"

\* Some entry of the parcel list has no weight field.
LacksWeight(parcels) ==
    \E i \in DOMAIN parcels.items : "weight" \notin parcels.items[i].keys

\* C3: the parcel list is wrapped in WeightedParcels exactly when
\* service_id is "PO5041" and in Parcels for every other registered code;
\* with "PO5041", a parcel list with an entry lacking weight makes the call
\* end in a validation error, never in a returned request.
C3_WeightedParcelsForSample ==
    \A t \in CsCalls :
       Inferred(t) =>
          /\ locals[t].parcels_class
                = IF args[t].service_id.s = "PO5041"
                  THEN "WeightedParcels" ELSE "Parcels"
          /\ "parcels" \in DOMAIN locals[t].kwargs =>
                locals[t].kwargs["parcels"].cls = locals[t].parcels_class
          /\ ( /\ args[t].service_id.s = "PO5041"
               /\ LacksWeight(args[t].parcels)
               /\ pc[t] = "done" )
             => outcome[t] = Raised("ValidationError")

\* "PO5041", sender and receiver valid, a parcel without weight: the call
\* fails when WeightedParcels validates the list.
C3_Witness ==
    \E t \in CsCalls :
       /\ pc[t] = "done"
       /\ args[t].service_id.s = "PO5041"
       /\ args[t].parcels = PyList(<<PyDict({"copies", "weight"}),
                                     PyDict({"copies"})>>)
       /\ constructed[t] =
             <<"Sender", "SenderPartners", "Receiver", "WeightedParcels">>
       /\ outcome[t] = Raised("ValidationError")

\* An optional field of a returned request: absent when the argument was
\* not supplied, and when present it carries the caller's non-empty value.
OptionalField(fields, name, arg, value) ==
    /\ arg = None => name \notin DOMAIN fields
    /\ name \in DOMAIN fields => (truthy(arg) /\ fields[name] = value)

\* C4: in every returned request each optional field (agent, orderNo,
\* senderReference, pdfConfig, and addons inside service) is absent when
\* its argument was not supplied, and is never present with a null or empty
\* placeholder: when present it carries the non-empty value passed.
C4_OptionalFieldsAbsentOrNonEmpty ==
    \A t \in CsCalls :
       (pc[t] = "done" /\ outcome[t].kind = "return") =>
          LET k == outcome[t].value.data
              a == args[t]
          IN  /\ OptionalField(k, "agent", a.agent, PyObj("Agent", a.agent))
              /\ OptionalField(k, "orderNo", a.order_no, a.order_no)
              /\ OptionalField(k, "senderReference", a.sender_reference,
                               a.sender_reference)
              /\ OptionalField(k, "pdfConfig", a.pdf_config,
                               PyObj("PDFConfig", a.pdf_config))
              /\ OptionalField(k["service"].data, "addons", a.addons, a.addons)

\* A request returned with a sender reference, an empty order number, an
\* empty addon list and no agent: only senderReference is present.
C4_Witness ==
    \E t \in CsCalls :
       /\ pc[t] = "done" /\ outcome[t].kind = "return"
       /\ args[t].agent = None
       /\ args[t].order_no = PyStr("")
       /\ args[t].addons = PyList(<<>>)
       /\ args[t].sender_reference = PyStr("REF-1")
       /\ args[t].pdf_config = PyDict({"target1Media"})
       /\ DOMAIN outcome[t].value.data =
             {"sender", "senderPartners", "receiver", "parcels", "service",
              "senderReference", "pdfConfig"}
       /\ DOMAIN outcome[t].value.data["service"].data = {"id"}

\* C5: the query holds strictZipCode, with the string "true", exactly when
\* strict_zip_code is truthy; otherwise it holds no strictZipCode at all.
C5_StrictZipCodeTrueOrOmitted ==
    \A t \in GlCalls :
       Sent(t) =>
          LET q == net[t][1].params
          IN  /\ "strictZipCode" \in DOMAIN q <=> truthy(args[t].strict_zip_code)
              /\ "strictZipCode" \in DOMAIN q => q["strictZipCode"] = PyStr("true")

\* strict_zip_code=True was sent as strictZipCode=true.
C5_Witness ==
    \E t \in GlCalls :
       /\ Sent(t)
       /\ args[t].strict_zip_code = PyBool(TRUE)
       /\ net[t][1].params["strictZipCode"] = PyStr("true")

\* Every argument but bounding_box is omitted.
OnlyBoundingBox(a) ==
    /\ \A x \in PlainArgs : a[x] = None
    /\ a.strict_zip_code = None
    /\ a.bounding_box # None

\* C6: for a 4-element bounding_box [a, b, c, d] and nothing else, the
\* query is exactly topLeftLat=a, topLeftLng=b, bottomRightLat=c,
\* bottomRightLng=d, with no bounding_box / boundingBox parameter.
C6_BoundingBoxExpanded ==
    \A t \in GlCalls :
       (Sent(t) /\ OnlyBoundingBox(args[t])
                /\ Len(args[t].bounding_box.items) = 4) =>
          LET q == net[t][1].params
              b == args[t].bounding_box.items
          IN  /\ DOMAIN q = {"topLeftLat", "topLeftLng", "bottomRightLat",
                             "bottomRightLng"}
              /\ q["topLeftLat"] = b[1]
              /\ q["topLeftLng"] = b[2]
              /\ q["bottomRightLat"] = b[3]
              /\ q["bottomRightLng"] = b[4]

\* bounding_box=[1.0, 2.0, 3.0, 4.0] alone has been sent.
C6_Witness ==
    \E t \in GlCalls :
       /\ Sent(t)
       /\ OnlyBoundingBox(args[t])
       /\ args[t].bounding_box.items =
             <<PyFloat("1.0"), PyFloat("2.0"), PyFloat("3.0"), PyFloat("4.0")>>
       /\ net[t][1].params["bottomRightLat"] = PyFloat("3.0")

\* The remote name of each argument that goes into the query as it is.
RemoteName(arg) ==
    CASE arg = "country_code" -> "countryCode"
      [] arg = "top" -> "top"
      [] arg = "types" -> "types"
      [] arg = "lattitude" -> "lat"
      [] arg = "longitude" -> "lng"
      [] arg = "distance" -> "distance"
      [] arg = "zipcode" -> "zipCode"
      [] arg = "location_zipcode" -> "locationZipCode"
      [] arg = "city" -> "city"
      [] arg = "municipality" -> "municipality"
      [] arg = "pup_code" -> "pupCode"
      [] arg = "partner_type" -> "partnerType"

\* C7: a parameter is left out only when its argument is None, not when it
\* is falsy: for each of the twelve plain arguments the remote name is in
\* the query, with the caller's value, if and only if the argument is not
\* None; a call with every argument omitted sends an empty query.
C7_OnlyNoneOmitted ==
    \A t \in GlCalls :
       Sent(t) =>
          LET q == net[t][1].params
          IN  /\ \A x \in PlainArgs :
                    /\ RemoteName(x) \in DOMAIN q <=> args[t][x] # None
                    /\ RemoteName(x) \in DOMAIN q => q[RemoteName(x)] = args[t][x]
              /\ (\A x \in DOMAIN args[t] : args[t][x] = None) => DOMAIN q = {}

\* top=0 has been sent as top=0.
C7_Witness ==
    \E t \in GlCalls :
       /\ Sent(t)
       /\ args[t].top = PyInt(0)
       /\ args[t].bounding_box = None
       /\ DOMAIN net[t][1].params = {"top"}
       /\ net[t][1].params["top"] = PyInt(0)

\* A get_locations call that has ended after a response came back.
Answered(t) ==
    /\ op[t] = "get_locations"
    /\ pc[t] = "done"
    /\ locals[t].response # NoResponse

\* At most one request per get_locations call, to the location endpoint,
\* and none per create_shipment call.
AtMostOneRequest ==
    \A t \in DOMAIN pc :
       /\ Len(net[t]) <= 1
       /\ op[t] # "get_locations" => net[t] = <<>>
       /\ \A i \in DOMAIN net[t] :
             /\ net[t][i].method = "GET"
             /\ net[t][i].url = LOCATION_SERVICE_API_ENDPOINT

C9_CallsIndependent ==
    /\ module = LoadedModule
    /\ \A t \in DOMAIN pc :
          pc[t] = "done" =>
             IF op[t] = "create_shipment"
             THEN /\ outcome[t] = create_shipment(LoadedModule, args[t])
                  /\ net[t] = <<>>
             ELSE LET alone == get_locations(args[t], locals[t].response)
                  IN  /\ outcome[t] = alone.outcome
                      /\ net[t] = alone.sent

\* A call that selected MobileReceiver has returned while another call,
\* which selected the base classes, is under way.
C9_Witness ==
    \E t, u \in DOMAIN pc :
       /\ t # u
       /\ pc[t] = "done" /\ op[t] = "create_shipment"
       /\ outcome[t].kind = "return"
       /\ outcome[t].value.data["receiver"].cls = "MobileReceiver"
       /\ op[u] = "create_shipment"
       /\ pc[u] = "cs_receiver"
       /\ locals[u].receiver_class = "Receiver"

\* C10: deriving the variant schemas leaves the base schemas unchanged:
\* at all times Receiver's first field set requires no "mobile" and
\* Parcels' items require no "weight", so a service that selects the base
\* classes ("PO2102") accepts a receiver without mobile and parcels
\* without weight, also after calls that used the variants.
C10_BaseSchemasUnchanged ==
    /\ "mobile" \notin SchemaOf(module, "Receiver").oneOf[1]
    /\ "weight" \notin SchemaOf(module, "Parcels").items.required
    /\ SchemaOf(module, "Receiver") = SchemaOf(ObjectsModule, "Receiver")
    /\ SchemaOf(module, "Parcels") = SchemaOf(ObjectsModule, "Parcels")
    /\ \A t \in CsCalls :
          ( /\ pc[t] = "done"
            /\ args[t].service_id.s = "PO2102"
            /\ args[t].sender = ValidSender
            /\ args[t].receiver = PlainReceiver
            /\ args[t].parcels = PyList(<<PyDict({"copies"})>>)
            /\ args[t].agent \in {None, PyDict({}), PyDict({"quickId"})}
            /\ args[t].pdf_config \in {None, PyDict({}), PyDict({"target1Media"})} )
          => /\ outcome[t].kind = "return"
             /\ outcome[t].value.data["receiver"] = PyObj("Receiver", PlainReceiver)
             /\ outcome[t].value.data["parcels"]
                   = PyObj("Parcels", PyList(<<PyDict({"copies"})>>))

\* After a call that used a variant class, "PO2102" has accepted a
\* receiver without mobile and a parcel without weight.
C10_Witness ==
    \E t \in CsCalls :
       /\ variantUsed
       /\ pc[t] = "done"
       /\ args[t].service_id.s = "PO2102"
       /\ args[t].receiver = PlainReceiver
       /\ args[t].parcels = PyList(<<PyDict({"copies"})>>)
       /\ outcome[t].kind = "return"
       /\ constructed[t][3] = "Receiver"

====
